---- MODULE Spec2Model ----
(***************************************************************************)
(* Model of EbayScraper (script.py): the paginated search loop, the        *)
(* per-listing field extraction and the condition filter.                  *)
(*                                                                         *)
(* Python strings whose content the code inspects are sequences of         *)
(* one-character strings; dictionary keys and tag/class names are TLA+     *)
(* strings.  An optional value (Python None or a value) is a set with at   *)
(* most one element.                                                       *)
(***************************************************************************)
EXTENDS Naturals, Sequences, FiniteSets, TLC

(***************************************************************************)
(* Bounds of the model.                                                    *)
(***************************************************************************)
MaxPagesBound == 3
MaxItems == 1
MaxElems == 2
MaxProducts == 2

(***************************************************************************)
(* Program constants: the bounds, in seconds, of the delay between pages.  *)
(***************************************************************************)
MinDelay == 2
MaxDelay == 4

(***************************************************************************)
(* Python string primitives.                                               *)
(***************************************************************************)
Whitespace == {" "}

LowerChar(c) ==
  CASE c = "A" -> "a" [] c = "B" -> "b" [] c = "E" -> "e" [] c = "L" -> "l"
    [] c = "N" -> "n" [] c = "O" -> "o" [] c = "P" -> "p" [] c = "S" -> "s"
    [] c = "U" -> "u" [] c = "W" -> "w" [] c = "D" -> "d"
    [] OTHER -> c

Lower(s) == IF s = <<>> THEN <<>> ELSE [i \in 1..Len(s) |-> LowerChar(s[i])]

RECURSIVE LStrip(_)
LStrip(s) ==
  IF s = <<>> THEN <<>>
  ELSE IF Head(s) \in Whitespace THEN LStrip(Tail(s)) ELSE s

RECURSIVE RStrip(_)
RStrip(s) ==
  IF s = <<>> THEN <<>>
  ELSE IF s[Len(s)] \in Whitespace THEN RStrip(SubSeq(s, 1, Len(s) - 1)) ELSE s

Strip(s) == RStrip(LStrip(s))

\* Python's  sub in s  on strings
Contains(sub, s) ==
  \E i \in 1..(Len(s) + 1) :
     /\ i + Len(sub) - 1 <= Len(s)
     /\ SubSeq(s, i, i + Len(sub) - 1) = sub

(***************************************************************************)
(* String literals of the program.                                         *)
(***************************************************************************)
NA == <<"N", "/", "A">>
ZeroSold == <<"0">>
ShopOnEbay == <<"S", "h", "o", "p", " ", "o", "n", " ", "e", "B", "a", "y">>
NewListing == <<"N", "e", "w", " ", "L", "i", "s", "t", "i", "n", "g">>
RejectedTitles == {ShopOnEbay, NewListing, <<>>}
StrNew == <<"N", "e", "w">>
StrUsed == <<"U", "s", "e", "d">>
StrPreOwned == <<"P", "r", "e", "-", "O", "w", "n", "e", "d">>

AvailableFields ==
  {"title", "price", "condition", "shipping", "location", "url",
   "image_url", "sold_count"}

(***************************************************************************)
(* BeautifulSoup primitives.  A listing node is the sequence, in document  *)
(* order, of the elements below it; an element is                          *)
(*   [tag, cls (set of class names), role, text, attrs].                   *)
(***************************************************************************)
Min(S) == CHOOSE x \in S : \A y \in S : x <= y

\* The arguments of find / find_all: a tag name and one attribute filter,
\* attr "" for none.  {'class': c} matches an element that has class c;
\* string=f matches an element whose .string satisfies f.
Sel(tag, attr, val) == [tag |-> tag, attr |-> attr, val |-> val]

\* elem.string: None for an element with no text child
HasString(e) == e.text # <<>>

\* line 313: lambda x: x and ('New' in x or 'Used' in x or 'Pre-Owned' in x)
ConditionString(e) ==
  /\ HasString(e)
  /\ \/ Contains(StrNew, e.text)
     \/ Contains(StrUsed, e.text)
     \/ Contains(StrPreOwned, e.text)

Matches(e, sel) ==
  /\ e.tag = sel.tag
  /\ CASE sel.attr = "class" -> sel.val \in e.cls
       [] sel.attr = "role" -> e.role = sel.val
       [] sel.attr = "string" -> ConditionString(e)
       [] OTHER -> TRUE

\* item.find(...): the first element in document order that matches
Find(item, sel) ==
  LET idx == {i \in 1..Len(item) : Matches(item[i], sel)}
  IN IF idx = {} THEN {} ELSE {item[Min(idx)]}

\* bool(tag): Tag.__bool__ is True whatever the tag contains; None is falsy
Truthy(opt) == opt # {}

\* Python's  a or b
PyOr(a, b) == IF Truthy(a) THEN a ELSE b

The(opt) == CHOOSE x \in opt : TRUE

\* elem.get_text(strip=True)
GetText(e) == Strip(e.text)

HasAttr(e, a) == a \in DOMAIN e.attrs

(***************************************************************************)
(* _extract_product_data.  A product is a function from keys to values.    *)
(***************************************************************************)
EmptyDict == <<>>

Put(d, k, v) == [x \in (DOMAIN d) \cup {k} |-> IF x = k THEN v ELSE d[x]]

\* variant: the titled div is looked for before the heading-role span
TitleElemDivFirst(item) ==
  PyOr(Find(item, Sel("div", "class", "s-item__title")),
       PyOr(Find(item, Sel("span", "role", "heading")),
            Find(item, Sel("h3", "class", "s-item__title"))))

\* the title selectors, tried with Python's  or
TitleElem(item) ==
  PyOr(Find(item, Sel("span", "role", "heading")),
       PyOr(Find(item, Sel("div", "class", "s-item__title")),
            Find(item, Sel("h3", "class", "s-item__title"))))

\* variant: the empty string is missing from the rejection list
TitleRejectedNoEmpty(title) == title \in {ShopOnEbay, NewListing}

\* title in ['Shop on eBay', 'New Listing', '']
TitleRejected(title) == title \in RejectedTitles

\* the value stored for each field other than the title
TextOr(opt, default) == IF Truthy(opt) THEN GetText(The(opt)) ELSE default

PriceValue(item) ==
  TextOr(Find(item, Sel("span", "class", "s-item__price")), NA)

ConditionValue(item) ==
  TextOr(PyOr(Find(item, Sel("span", "class", "SECONDARY_INFO")),
              Find(item, Sel("span", "string", "condition"))),
         NA)

ShippingValue(item) ==
  TextOr(PyOr(Find(item, Sel("span", "class", "s-item__shipping")),
              Find(item, Sel("span", "class", "s-item__logisticsCost"))),
         NA)

UrlValue(item) ==
  LET a_tag == Find(item, Sel("a", "class", "s-item__link"))
  IN IF Truthy(a_tag) /\ HasAttr(The(a_tag), "href")
     THEN The(a_tag).attrs["href"] ELSE NA

LocationValue(item) ==
  TextOr(PyOr(Find(item, Sel("span", "class", "s-item__location")),
              Find(item, Sel("span", "class", "s-item__itemLocation"))),
         NA)

ImageUrlValue(item) ==
  LET img_tag == Find(item, Sel("img", "", ""))
  IN IF Truthy(img_tag)
     THEN IF HasAttr(The(img_tag), "src") THEN The(img_tag).attrs["src"]
          ELSE IF HasAttr(The(img_tag), "data-src")
               THEN The(img_tag).attrs["data-src"] ELSE NA
     ELSE NA

SoldCountValue(item) ==
  TextOr(Find(item, Sel("span", "class", "s-item__quantitySold")),
         ZeroSold)

\* variant: a field whose selector found nothing is left out
PutIfFound(product, fields, field, value) ==
  IF field \in fields /\ value # NA THEN Put(product, field, value) ELSE product

\* product[field] = ... for a requested field, nothing otherwise
PutIfSelected(product, fields, field, value) ==
  IF field \in fields THEN Put(product, field, value) ELSE product

\* lines 305-344: the fields after the title, in the order of the code
OtherFields(item, fields, product) ==
  LET p1 == PutIfSelected(product, fields, "price", PriceValue(item))
      p2 == PutIfSelected(p1, fields, "condition", ConditionValue(item))
      p3 == PutIfSelected(p2, fields, "shipping", ShippingValue(item))
      p4 == PutIfSelected(p3, fields, "url", UrlValue(item))
      p5 == PutIfSelected(p4, fields, "location", LocationValue(item))
      p6 == PutIfSelected(p5, fields, "image_url", ImageUrlValue(item))
  IN PutIfSelected(p6, fields, "sold_count", SoldCountValue(item))

\* len(product) > 1: more than just the timestamp
MoreThanTimestamp(product) == Cardinality(DOMAIN product) > 1

\* The body of the try block: [raised, ret], ret the returned product or
\* nothing (None).  No statement of the body raises on a parsed node: every
\* subscript is guarded (line 325) and find/get/get_text do not raise.
ExtractBody(item, fields, now) ==
  LET title_elem == TitleElem(item)
      title == GetText(The(title_elem))
  IN IF "title" \in fields /\ ~Truthy(title_elem)
     THEN [raised |-> FALSE, ret |-> {}]
     ELSE IF "title" \in fields /\ TitleRejected(title)
     THEN [raised |-> FALSE, ret |-> {}]
     ELSE LET p0 == PutIfSelected(EmptyDict, fields, "title", title)
              product == Put(OtherFields(item, fields, p0), "scraped_at", now)
          IN [raised |-> FALSE,
              ret |-> IF MoreThanTimestamp(product) THEN {product} ELSE {}]

\* try: ... except Exception: return None
ExtractProductData(item, fields, now) ==
  LET r == ExtractBody(item, fields, now)
  IN IF r.raised THEN [raised |-> FALSE, ret |-> {}] ELSE r

(***************************************************************************)
(* _scrape_page: one GET and the parse of what came back.  A response is   *)
(* [kind, status, doc]; a document is the sequence of its candidate        *)
(* containers [tag, cls, item].                                            *)
(***************************************************************************)
\* soup.find_all(tag, {'class': cls})
RECURSIVE FindAll(_, _)
FindAll(doc, sel) ==
  IF doc = <<>> THEN <<>>
  ELSE IF Matches(Head(doc), sel)
       THEN <<Head(doc)>> \o FindAll(Tail(doc), sel)
       ELSE FindAll(Tail(doc), sel)

\* lines 255-259: the primary container rule, else the alternative one
ListingItems(doc) ==
  LET items == FindAll(doc, Sel("li", "class", "s-item"))
  IN IF items = <<>> THEN FindAll(doc, Sel("div", "class", "s-item__wrapper")) ELSE items

\* lines 264-267: the accepted products of the items, in document order
RECURSIVE ExtractAll(_, _, _)
ExtractAll(items, fields, now) ==
  IF items = <<>> THEN <<>>
  ELSE LET product == ExtractProductData(Head(items).item, fields, now).ret
           rest == ExtractAll(Tail(items), fields, now)
       IN IF Truthy(product) THEN <<The(product)>> \o rest ELSE rest

\* response.raise_for_status(), or session.get itself, raises
FetchFailed(response) == response.kind # "Success"

\* lines 247-281: a failed fetch returns the empty list
ScrapePageResult(response, fields, now) ==
  IF FetchFailed(response) THEN <<>>
  ELSE ExtractAll(ListingItems(response.doc), fields, now)

\* variant: the page's products replace the accumulator
ExtendReplace(all, products) == products

\* line 198: all_products.extend(products)
Extend(all, products) == all \o products

\* variant: the page index is compared with 0
EmptyFirstPageZeroBased(products, pg) == Len(products) = 0 /\ pg = 0

\* variant: any empty page leaves the loop
EmptyAnyPage(products, pg) == Len(products) = 0

\* line 201: the first page came back empty
EmptyFirstPage(products, pg) == Len(products) = 0 /\ pg = 1

(***************************************************************************)
(* filter_by_condition.  The condition argument is optional: {} is None.   *)
(***************************************************************************)
\* product.get(key, default)
DictGet(d, k, default) == IF k \in DOMAIN d THEN d[k] ELSE default

\* not condition: None or the empty string
ConditionFalsy(cond) == cond = {} \/ The(cond) = <<>>

\* variant: the record's condition is not lower-cased
ProdConditionCaseSensitive(p) == DictGet(p, "condition", <<>>)

\* line 362: product.get('condition', '').lower()
ProdCondition(p) == Lower(DictGet(p, "condition", <<>>))

\* line 363: condition.lower() in prod_condition
ConditionMatches(p, cond) == Contains(Lower(The(cond)), ProdCondition(p))

RECURSIVE FilterLoop(_, _)
FilterLoop(prods, cond) ==
  IF prods = <<>> THEN <<>>
  ELSE IF ConditionMatches(Head(prods), cond)
       THEN <<Head(prods)>> \o FilterLoop(Tail(prods), cond)
       ELSE FilterLoop(Tail(prods), cond)

FilterByCondition(prods, cond) ==
  IF ConditionFalsy(cond) THEN prods ELSE FilterLoop(prods, cond)

(***************************************************************************)
(* Inputs: the markup the model draws listing nodes and pages from.        *)
(***************************************************************************)
NoAttrs == <<>>

El(tag, cls, role, text, attrs) ==
  [tag |-> tag, cls |-> cls, role |-> role, text |-> text, attrs |-> attrs]

TxtLap == <<"L", "a", "p">>
TxtPad == <<"P", "a", "d">>
TxtUsedPc == <<"U", "s", "e", "d", " ", "P", "C">>
TxtPrice == <<"$", "5">>
TxtBrandNew == <<"B", "r", "a", "n", "d", " ", "N", "e", "w">>
TxtSold == <<" ", "3", " ", "s", "o", "l", "d">>
TxtHref == <<"/", "i", "t", "m">>
TxtSrc == <<"a", ".", "j", "p", "g">>
TxtDataSrc == <<"b", ".", "j", "p", "g">>

HeadingLap == El("span", {}, "heading", TxtLap, NoAttrs)
HeadingEmpty == El("span", {}, "heading", <<>>, NoAttrs)
HeadingBadge == El("span", {}, "heading", <<" ">> \o NewListing \o <<" ">>, NoAttrs)
DivBanner == El("div", {"s-item__title"}, "", ShopOnEbay, NoAttrs)
DivPad == El("div", {"s-item__title"}, "", TxtPad, NoAttrs)
H3UsedPc == El("h3", {"s-item__title"}, "", TxtUsedPc, NoAttrs)
SpanPrice == El("span", {"s-item__price"}, "", TxtPrice, NoAttrs)
SpanSecondary == El("span", {"SECONDARY_INFO"}, "", TxtBrandNew, NoAttrs)
SpanPreOwned == El("span", {}, "", StrPreOwned, NoAttrs)
LinkHref == El("a", {"s-item__link"}, "", <<>>, "href" :> TxtHref)
LinkBare == El("a", {"s-item__link"}, "", <<>>, NoAttrs)
ImgSrc == El("img", {}, "", <<>>, ("src" :> TxtSrc) @@ ("data-src" :> TxtDataSrc))
ImgLazy == El("img", {}, "", <<>>, "data-src" :> TxtDataSrc)
SpanSold == El("span", {"s-item__quantitySold"}, "", TxtSold, NoAttrs)

ElementChoices ==
  {HeadingLap, HeadingEmpty, HeadingBadge, DivBanner, DivPad, H3UsedPc,
   SpanPrice, SpanSecondary, SpanPreOwned, LinkHref, LinkBare, ImgSrc,
   ImgLazy, SpanSold}

SeqsUpTo(S, n) == UNION {[1..k -> S] : k \in 0..n}

\* the listing nodes _extract_product_data is applied to
ItemChoices == SeqsUpTo(ElementChoices, MaxElems)

\* self.selected_fields, as get_user_preferences can leave it (never empty)
FieldChoices ==
  {{f} : f \in AvailableFields}
    \cup {{"title", "price"}, {"title", "condition", "url"},
          {"price", "image_url", "sold_count"}, AvailableFields}

\* the pages the search loop may be served
NodeGood == <<HeadingLap, SpanPrice>>
NodeBanner == <<DivBanner, SpanPrice>>

Container(tag, cls, node) ==
  [tag |-> tag, cls |-> {cls}, role |-> "", text |-> <<>>, item |-> node]

ContainerChoices ==
  {Container("li", "s-item", NodeGood),
   Container("div", "s-item__wrapper", NodeBanner)}

DocChoices == SeqsUpTo(ContainerChoices, MaxItems)

ResponseChoices ==
  {[kind |-> "Success", status |-> 200, doc |-> d] : d \in DocChoices}
    \cup {[kind |-> "HttpError", status |-> st, doc |-> <<>>] : st \in {429, 500}}
    \cup {[kind |-> "TransportError", status |-> 0, doc |-> <<>>]}

SearchFieldChoices == {{"title", "price", "condition"}, {"price"}, {"title"}}

\* the records and conditions filter_by_condition is applied to: products
\* that _extract_product_data returns, with and without a condition key
SpanUsedUpper == El("span", {"SECONDARY_INFO"}, "", <<"U", "S", "E", "D">>, NoAttrs)

FilterNodes ==
  {<<HeadingLap, SpanPrice, SpanSecondary>>, <<HeadingLap, SpanPreOwned>>,
   <<HeadingLap, SpanPrice>>,
   <<DivPad, SpanUsedUpper>>}

FilterFieldChoices == {{"title", "condition"}, {"title", "price"}}

FilterProductChoices ==
  UNION {ExtractProductData(n, f, 0).ret :
           n \in FilterNodes, f \in FilterFieldChoices}

ConditionChoices ==
  {{}, {<<>>}, {<<"n", "e", "w">>}, {<<"u", "s", "e", "d">>}, {StrNew}}

(***************************************************************************)
(* State.                                                                  *)
(*   selected_fields, debug_mode  the scraper's configuration              *)
(*   max_pages, page, all_products  arguments and locals of search         *)
(*   pc      position of the single thread of control                      *)
(*   log     the requests sent, the responses handled, the warnings        *)
(*           printed and the sleeps taken, in order                        *)
(*   clock   what datetime.now() reads                                     *)
(*   item, product  argument and result of one _extract_product_data call  *)
(*   products, condition, filtered  arguments and result of one            *)
(*           filter_by_condition call                                      *)
(***************************************************************************)
VARIABLES selected_fields, debug_mode, max_pages, page, all_products, pc,
          log, clock, item, product, products, condition, filtered

vars == <<selected_fields, debug_mode, max_pages, page, all_products, pc,
          log, clock, item, product, products, condition, filtered>>

searchVars == <<page, all_products, log, clock>>
configVars == <<selected_fields, debug_mode, max_pages>>
extractVars == <<item, product>>
filterVars == <<products, condition, filtered>>

GetEvent(pg) ==
  [ev |-> "get", page |-> pg, kind |-> "", products |-> <<>>, delay |-> 0]
RespEvent(pg, kind, prods) ==
  [ev |-> "resp", page |-> pg, kind |-> kind, products |-> prods, delay |-> 0]
WarnEvent(pg) ==
  [ev |-> "warn", page |-> pg, kind |-> "", products |-> <<>>, delay |-> 0]
SleepEvent(pg, d) ==
  [ev |-> "sleep", page |-> pg, kind |-> "", products |-> <<>>, delay |-> d]

Init ==
  /\ selected_fields \in SearchFieldChoices
  /\ debug_mode \in BOOLEAN
  /\ max_pages \in 1..MaxPagesBound
  /\ page = 1
  /\ all_products = <<>>
  /\ pc = "for"
  /\ log = <<>>
  /\ clock = 0
  /\ item = <<>>
  /\ product = [raised |-> FALSE, ret |-> {}]
  /\ products = <<>>
  /\ condition = {}
  /\ filtered = <<>>

(***************************************************************************)
(* search                                                                  *)
(***************************************************************************)
\* variant: the loop runs one page too far
SendRequestOffByOne ==
  /\ pc = "for"
  /\ page <= max_pages + 1
  /\ log' = Append(log, GetEvent(page))
  /\ pc' = "get"
  /\ UNCHANGED <<page, all_products, clock, configVars, extractVars, filterVars>>

\* lines 189-197 and 248: the loop has a next page; its GET is sent
SendRequest ==
  /\ pc = "for"
  /\ page <= max_pages
  /\ log' = Append(log, GetEvent(page))
  /\ pc' = "get"
  /\ UNCHANGED <<page, all_products, clock, configVars, extractVars, filterVars>>

\* lines 248-281 and 198-211: the response is parsed, the products are
\* appended, and the loop breaks on an empty first page
ScrapePage ==
  /\ pc = "get"
  /\ \E response \in ResponseChoices :
       LET prods == ScrapePageResult(response, selected_fields, clock)
       IN /\ all_products' = Extend(all_products, prods)
          /\ IF EmptyFirstPage(prods, page)
             THEN /\ log' = log \o <<RespEvent(page, response.kind, prods),
                                     WarnEvent(page)>>
                  /\ pc' = IF debug_mode THEN "diagnose" ELSE "break"
             ELSE /\ log' = Append(log, RespEvent(page, response.kind, prods))
                  /\ pc' = "sleep"
  /\ UNCHANGED <<page, clock, configVars, extractVars, filterVars>>

\* variant: the next iteration starts without the sleep
SleepSkipped ==
  /\ pc = "sleep"
  /\ page' = page + 1
  /\ pc' = "for"
  /\ UNCHANGED <<log, clock, all_products, configVars, extractVars, filterVars>>

\* line 214: time.sleep(random.uniform(2, 4)), then the next iteration
Sleep ==
  /\ pc = "sleep"
  /\ \E d \in MinDelay..MaxDelay :
       /\ log' = Append(log, SleepEvent(page, d))
       /\ clock' = clock + d
  /\ page' = page + 1
  /\ pc' = "for"
  /\ UNCHANGED <<all_products, configVars, extractVars, filterVars>>

\* lines 218-221: _diagnose_issue sends a GET for the same URL
DiagnoseRequest ==
  /\ pc = "diagnose"
  /\ log' = Append(log, GetEvent(page))
  /\ pc' = "diagnose_get"
  /\ UNCHANGED <<page, all_products, clock, configVars, extractVars, filterVars>>

\* lines 222-243: whatever comes back is printed, never parsed; then break
DiagnoseResponse ==
  /\ pc = "diagnose_get"
  /\ \E response \in ResponseChoices :
       log' = Append(log, RespEvent(page, response.kind, <<>>))
  /\ pc' = "break"
  /\ UNCHANGED <<page, all_products, clock, configVars, extractVars, filterVars>>

\* line 216: return all_products, after a break or after the last page
Return ==
  /\ \/ pc = "break"
     \/ pc = "for" /\ page > max_pages
  /\ pc' = "returned"
  /\ UNCHANGED <<searchVars, configVars, extractVars, filterVars>>

Next ==
  \/ SendRequest
  \/ ScrapePage
  \/ Sleep
  \/ DiagnoseRequest
  \/ DiagnoseResponse
  \/ Return

Spec == Init /\ [][Next]_vars

\* the thread runs whenever it can: search is straight-line code whose only
\* blocking call, session.get, is bounded by timeout=15
LiveSpec == Spec /\ WF_vars(Next)

(***************************************************************************)
(* One call of _extract_product_data on a listing node.                    *)
(***************************************************************************)
ExtractInit ==
  /\ selected_fields \in FieldChoices
  /\ item \in ItemChoices
  /\ product = [raised |-> FALSE, ret |-> {}]
  /\ pc = "extract"
  /\ clock \in {0, 1}
  /\ debug_mode = FALSE
  /\ max_pages = 1
  /\ page = 1
  /\ all_products = <<>>
  /\ log = <<>>
  /\ products = <<>>
  /\ condition = {}
  /\ filtered = <<>>

\* lines 283-353
ExtractCall ==
  /\ pc = "extract"
  /\ product' = ExtractProductData(item, selected_fields, clock)
  /\ pc' = "extracted"
  /\ UNCHANGED <<item, searchVars, configVars, filterVars>>

ExtractNext == ExtractCall

ExtractSpec == ExtractInit /\ [][ExtractNext]_vars

(***************************************************************************)
(* One call of filter_by_condition.                                        *)
(***************************************************************************)
FilterInit ==
  /\ products \in SeqsUpTo(FilterProductChoices, MaxProducts)
  /\ condition \in ConditionChoices
  /\ filtered = <<>>
  /\ pc = "filter"
  /\ selected_fields = {}
  /\ debug_mode = FALSE
  /\ max_pages = 1
  /\ page = 1
  /\ all_products = <<>>
  /\ log = <<>>
  /\ clock = 0
  /\ item = <<>>
  /\ product = [raised |-> FALSE, ret |-> {}]

\* lines 355-366
FilterCall ==
  /\ pc = "filter"
  /\ filtered' = FilterByCondition(products, condition)
  /\ pc' = "filtered"
  /\ UNCHANGED <<products, condition, searchVars, configVars, extractVars>>

FilterNext == FilterCall

FilterSpec == FilterInit /\ [][FilterNext]_vars

(***************************************************************************)
(* Properties of search.                                                   *)
(***************************************************************************)
IsGet(i) == log[i].ev = "get"
IsResp(i) == log[i].ev = "resp"
IsFailure(i) == IsResp(i) /\ log[i].kind # "Success"
LogIdx == DOMAIN log

\* the response _scrape_page handled for the first page
FirstPageHandled == Len(log) >= 2 /\ IsResp(2)
FirstPageEmpty == FirstPageHandled /\ log[2].products = <<>>
FirstPageFailed == FirstPageHandled /\ IsFailure(2)

RECURSIVE ConcatProducts(_)
ConcatProducts(l) ==
  IF l = <<>> THEN <<>> ELSE Head(l).products \o ConcatProducts(Tail(l))

IsPrefix(a, b) == Len(a) <= Len(b) /\ SubSeq(b, 1, Len(a)) = a

C2_EmptyFirstPageStops ==
  FirstPageEmpty =>
    /\ \A j \in LogIdx : log[j].page = 1
    /\ Len(log) >= 3 /\ log[3].ev = "warn"
    /\ page = 1
    /\ pc \in {"diagnose", "diagnose_get", "break", "returned"}

C2_Witness ==
  /\ pc = "returned"
  /\ max_pages = 3
  /\ FirstPageEmpty
  /\ log[2].kind = "Success"

\* C3: a page k with 2 <= k < max_pages that is fetched successfully and
\* yields no record is followed by the sleep and the request of page k+1.
C3_EmptyLaterPageGoesOn ==
  \A i \in LogIdx :
     (IsResp(i) /\ log[i].kind = "Success" /\ log[i].products = <<>>
        /\ log[i].page >= 2 /\ log[i].page < max_pages)
     => /\ pc # "break"
        /\ pc = "returned" =>
             \E j \in LogIdx : j > i /\ IsGet(j) /\ log[j].page = log[i].page + 1

C3_Witness ==
  /\ pc = "returned"
  /\ max_pages = 3
  /\ \E i \in LogIdx :
        /\ IsResp(i) /\ log[i].kind = "Success" /\ log[i].products = <<>>
        /\ log[i].page = 2
  /\ \E j \in LogIdx : IsGet(j) /\ log[j].page = 3

\* C4: when the fetch of a page k >= 2 fails, the products of the pages
\* before it are, unchanged and in page order, a prefix of all_products from
\* then on, the returned list included.
C4_AccumulatorKept ==
  \A i \in LogIdx :
     (IsFailure(i) /\ log[i].page >= 2)
     => IsPrefix(ConcatProducts(SubSeq(log, 1, i - 1)), all_products)

C4_Witness ==
  /\ pc = "returned"
  /\ \E i \in LogIdx :
        /\ IsFailure(i) /\ log[i].page = 2
        /\ Len(ConcatProducts(SubSeq(log, 1, i - 1))) >= 1
  /\ Len(all_products) >= 2

\* C5: requests never overlap (between two requests the earlier one was
\* answered), and between the response for page k and the request for page
\* k+1 the sleep, of at least MinDelay seconds, was taken.
C5_SequentialAndDelayed ==
  \A i \in LogIdx : \A j \in LogIdx :
     (i < j /\ IsGet(i) /\ IsGet(j)) =>
        /\ \E r \in LogIdx : i < r /\ r < j /\ IsResp(r) /\ log[r].page = log[i].page
        /\ log[j].page = log[i].page + 1 =>
             \E r \in LogIdx : \E d \in LogIdx :
                /\ i < r /\ r < d /\ d < j
                /\ IsResp(r) /\ log[r].page = log[i].page
                /\ log[d].ev = "sleep" /\ log[d].delay >= MinDelay

C5_Witness ==
  /\ pc = "returned"
  /\ \E j \in LogIdx : IsGet(j) /\ log[j].page = 3

\* C9: every product of the run has exactly the requested fields plus the
\* timestamp as keys.
C9_UniformKeys ==
  \A i \in DOMAIN all_products :
     DOMAIN all_products[i] = selected_fields \cup {"scraped_at"}

C9_Witness ==
  /\ pc = "returned"
  /\ selected_fields = {"title", "price", "condition"}
  /\ Len(all_products) >= 2
  /\ \E i \in DOMAIN all_products : all_products[i]["condition"] = NA

\* the page indices of the requests sent, in order
RECURSIVE RequestedPages(_)
RequestedPages(l) ==
  IF l = <<>> THEN <<>>
  ELSE IF Head(l).ev = "get" THEN <<Head(l).page>> \o RequestedPages(Tail(l))
       ELSE RequestedPages(Tail(l))

\* C10 as stated: the requested page indices increase strictly and there
\* are at most max_pages requests.
C10_NoPageRequestedTwice ==
  LET r == RequestedPages(log)
  IN /\ \A i \in DOMAIN r : r[i] = i
     /\ Len(r) <= max_pages

\* C10 amended: the run ends; the loop requests pages 1, 2, ..., k in
\* increasing order, k <= max_pages, each once; the only repeated request is
\* the one _diagnose_issue sends for page 1 in debug mode after an empty
\* first page, so there are at most max_pages requests without debug mode and
\* at most max_pages + 1 with it.
C10_RequestsInv ==
  LET r == RequestedPages(log)
      diagnosed == debug_mode /\ FirstPageEmpty /\ Len(r) = 2
  IN IF diagnosed
     THEN r = <<1, 1>>
     ELSE /\ \A i \in DOMAIN r : r[i] = i
          /\ Len(r) <= max_pages

C10_TerminatesBounded == <>(pc = "returned") /\ []C10_RequestsInv

C10_Witness ==
  /\ pc = "returned"
  /\ debug_mode
  /\ RequestedPages(log) = <<1, 1>>

(***************************************************************************)
(* Properties of _extract_product_data.                                    *)
(***************************************************************************)
NonTimestampKeys(p) == (DOMAIN p) \ {"scraped_at"}

\* the title strategies in their declared order
TitleStrategies ==
  <<Sel("span", "role", "heading"), Sel("div", "class", "s-item__title"),
    Sel("h3", "class", "s-item__title")>>

StrategyMatches(node, k) == Find(node, TitleStrategies[k]) # {}
StrategyText(node, k) == GetText(The(Find(node, TitleStrategies[k])))

\* the text of the first strategy whose text is not empty, if any
FirstNonEmptyTitle(node) ==
  LET ks == {k \in DOMAIN TitleStrategies :
                StrategyMatches(node, k) /\ StrategyText(node, k) # <<>>}
  IN IF ks = {} THEN {} ELSE {StrategyText(node, Min(ks))}

\* the text of the first strategy that matches an element, if any
FirstMatchedTitle(node) ==
  LET ks == {k \in DOMAIN TitleStrategies : StrategyMatches(node, k)}
  IN IF ks = {} THEN {} ELSE {StrategyText(node, Min(ks))}

\* C6 as stated: the call does not raise and returns nothing or a record
\* with a non-timestamp field and a title outside the rejection set.
C6_ValidTitleAlways ==
  pc = "extracted" =>
    /\ ~product.raised
    /\ product.ret # {} =>
         LET p == The(product.ret)
         IN /\ Cardinality(NonTimestampKeys(p)) >= 1
            /\ "title" \in DOMAIN p
            /\ p["title"] \notin RejectedTitles

\* C6 amended: the call does not raise and returns nothing or a record with
\* a non-timestamp field; when the title is among the requested fields the
\* record has a title that was located in the node and is outside the
\* rejection set (when it is not requested the record has no title).
C6_ValidTitleIfRequested ==
  pc = "extracted" =>
    /\ ~product.raised
    /\ product.ret # {} =>
         LET p == The(product.ret)
         IN /\ Cardinality(NonTimestampKeys(p)) >= 1
            /\ ("title" \in DOMAIN p) = ("title" \in selected_fields)
            /\ "title" \in selected_fields =>
                 /\ p["title"] \notin RejectedTitles
                 /\ \E k \in DOMAIN TitleStrategies :
                       /\ StrategyMatches(item, k)
                       /\ StrategyText(item, k) = p["title"]

C6_Witness ==
  /\ pc = "extracted"
  /\ product.ret # {}
  /\ "title" \in selected_fields
  /\ Cardinality(selected_fields) >= 2

\* C8 as stated: the located title is the text of the first strategy whose
\* text is not empty.
C8_FirstNonEmptyWins ==
  (pc = "extracted" /\ "title" \in selected_fields) =>
    LET t == FirstNonEmptyTitle(item)
    IN /\ t = {} => product.ret = {}
       /\ (t # {} /\ The(t) \notin RejectedTitles) =>
            /\ product.ret # {}
            /\ The(product.ret)["title"] = The(t)

\* C8 amended: the located title is the text of the first strategy, in the
\* declared order, that matches an element, also when that text is empty (the
\* node is then rejected, whatever a later strategy would find); the chain
\* yields nothing only if no strategy matches.
C8_FirstMatchWins ==
  (pc = "extracted" /\ "title" \in selected_fields) =>
    LET t == FirstMatchedTitle(item)
    IN /\ t = {} => product.ret = {}
       /\ (t # {} /\ The(t) \in RejectedTitles) => product.ret = {}
       /\ (t # {} /\ The(t) \notin RejectedTitles) =>
            /\ product.ret # {}
            /\ The(product.ret)["title"] = The(t)

C8_Witness ==
  /\ pc = "extracted"
  /\ "title" \in selected_fields
  /\ StrategyMatches(item, 1) /\ StrategyText(item, 1) = <<>>
  /\ StrategyMatches(item, 2) /\ StrategyText(item, 2) # <<>>
  /\ product.ret = {}

(***************************************************************************)
(* Properties of filter_by_condition.                                      *)
(***************************************************************************)
\* the subsequence of s at the indices K
SubseqAt(s, K) ==
  IF K = {} THEN <<>>
  ELSE [k \in 1..Cardinality(K) |->
          s[CHOOSE i \in K : Cardinality({j \in K : j <= i}) = k]]

ContainsIgnoringCase(sub, str) == Contains(Lower(sub), Lower(str))

HasCondition(p) == "condition" \in DOMAIN p

\* C7 as stated: the records whose condition contains the argument, case
\* ignored, together with the records that have no condition.
C7_AbsentPassesThrough ==
  (pc = "filtered" /\ ~ConditionFalsy(condition)) =>
    filtered =
      SubseqAt(products,
               {i \in DOMAIN products :
                   \/ ~HasCondition(products[i])
                   \/ ContainsIgnoringCase(The(condition),
                                           products[i]["condition"])})

\* C7 amended: exactly the records that have a condition value which
\* contains the argument, case ignored, in input order; a record with no
\* condition value is dropped.
C7_AbsentDropped ==
  (pc = "filtered" /\ ~ConditionFalsy(condition)) =>
    filtered =
      SubseqAt(products,
               {i \in DOMAIN products :
                   /\ HasCondition(products[i])
                   /\ ContainsIgnoringCase(The(condition),
                                           products[i]["condition"])})

C7_Witness ==
  /\ pc = "filtered"
  /\ ~ConditionFalsy(condition)
  /\ Len(products) = 2
  /\ ~HasCondition(products[1])
  /\ HasCondition(products[2])
  /\ filtered = <<products[2]>>

====
